---- MODULE Spec2Model ----
(***************************************************************************)
(* Session timer state machine and credit settlement of                   *)
(* backend/core/views/session.py (SessionViewSet).                         *)
(*                                                                         *)
(* The database rows are the variables timers, isActive, balance, bank    *)
(* and ledger.  Credit amounts are Decimals; they are held as integers in  *)
(* units of 1/Unit credit.  Spec runs every request handler as one         *)
(* indivisible step.  SpecConc runs the requests of the two participants   *)
(* of one session one database access at a time, and SpecShared does the   *)
(* same for two sessions that share a learner.                             *)
(***************************************************************************)
EXTENDS Integers, Sequences, FiniteSets, TLC

\* ------------------------------------------------------------------ bounds
MaxNow == 650
MaxTimers == 2
ClockSteps == {300, 350}
InitCredits == {0, 1, 5}

\* --------------------------------------------------------------- constants
Unit == 10000
SecondsPerCredit == 300
BankCutPercent == 10
NULL == -1

Users == {"u1", "u2", "u3", "u4"}
Sessions == {1, 2, 3}
AtomicSessions == {1}
\* The users who call: the participants of session 1 and one outsider.
Callers == {"u1", "u2", "u3"}

User1(s) == IF s = 1 THEN "u1" ELSE "u3"
User2(s) == IF s = 3 THEN "u4" ELSE "u2"

VARIABLES now, isActive, timers, balance, bank, ledger, resp, req,
          conn, group, chan, out, last, gate

\* The rows, requests and responses of the session API.
sessionVars == <<now, isActive, timers, balance, bank, ledger, resp, req>>

\* The realtime side: the chat connections, the members of each group, the
\* group events not yet handled by each consumer, the messages sent to each
\* client, the last frame a client sent in, and the connection at the gate.
chatVars == <<conn, group, chan, out, last, gate>>

vars == <<now, isActive, timers, balance, bank, ledger, resp, req,
          conn, group, chan, out, last, gate>>

\* The chat connections, and the session ids they ask for: session 1
\* exists, no session has id 9.
Conns == {1, 2, 3}
ChatSessions == {1, 9}

\* AnonymousUser (middleware.py, lines 19 and 57).
Anonymous == "anon"

NoConn == [user |-> "", sid |-> 0, st |-> "none", code |-> 0]
NoFrame == [c |-> 0, n |-> 0, data |-> [type |-> "none"]]
NoGate == [pc |-> "idle", query |-> << >>, subprotocols |-> << >>, user |-> ""]

\* Nobody connected, nothing at the gate.
InitChatVars ==
    /\ conn = [c \in Conns |-> NoConn]
    /\ group = [g \in ChatSessions |-> {}]
    /\ chan = [c \in Conns |-> << >>]
    /\ out = [c \in Conns |-> << >>]
    /\ last = NoFrame
    /\ gate = NoGate

\* The concurrent requests of SpecConc and SpecShared.
Procs == {1, 2}

Min(a, b) == IF a <= b THEN a ELSE b

\* ------------------------------------------------------------------ doubles
\* The credit summary holds Python floats (float(...) of lines 213, 223 and
\* 227): IEEE 754 doubles.
\* A double has a mantissa of 53 binary digits: kept as the first 26 (hi)
\* and the last 27 (lo), both within the integers of the checker.
HiBits == 26
LoBits == 27

\* 2^k for k in 0..27.
Pow2(k) ==
    << 1, 2, 4, 8, 16, 32, 64, 128, 256, 512, 1024, 2048, 4096, 8192, 16384,
       32768, 65536, 131072, 262144, 524288, 1048576, 2097152, 4194304,
       8388608, 16777216, 33554432, 67108864, 134217728 >>[k + 1]

\* The least e >= 0 with n < d * 2^e.
RECURSIVE ExpUp(_, _)
ExpUp(n, d) == IF n < d THEN 0 ELSE 1 + ExpUp(n, 2 * d)

\* The least k >= 0 with n * 2^k >= d / 2.
RECURSIVE ExpDown(_, _)
ExpDown(n, d) == IF 2 * n >= d THEN 0 ELSE 1 + ExpDown(2 * n, d)

FloatZero == [e |-> 0, hi |-> 0, lo |-> 0]

\* Round to nearest, ties to even: up says the part cut off is more than
\* half a unit in the last place, tie that it is exactly half.
RoundBits(e, hi, lo, up, tie) ==
    IF up \/ (tie /\ lo % 2 = 1)
    THEN IF lo + 1 < Pow2(LoBits) THEN [e |-> e, hi |-> hi, lo |-> lo + 1]
         ELSE IF hi + 1 < Pow2(HiBits) THEN [e |-> e, hi |-> hi + 1, lo |-> 0]
         ELSE [e |-> e + 1, hi |-> Pow2(HiBits - 1), lo |-> 0]
    ELSE [e |-> e, hi |-> hi, lo |-> lo]

\* Long division of r by d (0 <= r < d < 2^22), at most nine binary digits
\* a step: the digits found and what is left.
DivStep(r, d, k) == [q |-> (r * Pow2(k)) \div d, r |-> (r * Pow2(k)) % d]

\* float(Decimal): the double nearest to n / Unit (0 <= n < 2^13 * Unit), as
\* an exponent e and a mantissa (hi * 2^27 + lo) / 2^53 in [1/2, 1): the
\* value mantissa * 2^e.  Three digits more and what is left of the division
\* decide the rounding.
Float(n) ==
    IF n = 0 THEN FloatZero
    ELSE LET up == ExpUp(n, Unit)
             down == ExpDown(n, Unit)
             num == IF up > 0 THEN n ELSE n * Pow2(down)
             den == IF up > 0 THEN Unit * Pow2(up) ELSE Unit
             h1 == DivStep(num, den, 9)
             h2 == DivStep(h1.r, den, 9)
             h3 == DivStep(h2.r, den, 8)
             l1 == DivStep(h3.r, den, 9)
             l2 == DivStep(l1.r, den, 9)
             l3 == DivStep(l2.r, den, 9)
             g == DivStep(l3.r, den, 3)
         IN  RoundBits(IF up > 0 THEN up ELSE -down,
                       (h1.q * Pow2(9) + h2.q) * Pow2(8) + h3.q,
                       (l1.q * Pow2(9) + l2.q) * Pow2(9) + l3.q,
                       g.q > 4 \/ (g.q = 4 /\ g.r > 0),
                       g.q = 4 /\ g.r = 0)

\* x + y of two doubles float() made, neither negative (their exponents
\* differ by less than 27): the smaller moved right onto the exponent of the
\* larger, the two added, and the sum rounded to 53 digits.
FloatAdd(x, y) ==
    IF x = FloatZero THEN y
    ELSE IF y = FloatZero THEN x
    ELSE LET big == IF x.e >= y.e THEN x ELSE y
             small == IF x.e >= y.e THEN y ELSE x
             shift == big.e - small.e
             lost == small.lo % Pow2(shift)
             lo == big.lo + (small.lo \div Pow2(shift))
                     + (small.hi % Pow2(shift)) * Pow2(LoBits - shift)
             hi == big.hi + (small.hi \div Pow2(shift)) + (lo \div Pow2(LoBits))
             low == lo % Pow2(LoBits)
         IN  IF hi < Pow2(HiBits)
             THEN RoundBits(big.e, hi, low,
                            2 * lost > Pow2(shift),
                            shift > 0 /\ 2 * lost = Pow2(shift))
             ELSE LET lost1 == (low % 2) * Pow2(shift) + lost
                  IN  RoundBits(big.e + 1, hi \div 2,
                                (low \div 2) + (hi % 2) * Pow2(LoBits - 1),
                                lost1 > Pow2(shift), lost1 = Pow2(shift))

\* ----------------------------------------------------------------- models
\* Session.get_active_timer: the first timer of the session still running,
\* as an index into the session's timers (0: none).
GetActiveTimer(ts) ==
    IF \E i \in 1..Len(ts) : ts[i].stoppedAt = NULL
    THEN CHOOSE i \in 1..Len(ts) :
            /\ ts[i].stoppedAt = NULL
            /\ \A j \in 1..(i - 1) : ts[j].stoppedAt # NULL
    ELSE 0

\* SessionTimer.stop on timer i.
StopTimerAt(ts, i, t) == [ts EXCEPT ![i].stoppedAt = t]

\* SessionTimer.start_timer(session, user).
NewTimer(ts, u, t) ==
    Append(ts, [teacher |-> u, startedAt |-> t, stoppedAt |-> NULL])

\* Session.end_session: stops any running timers.
StopRunning(ts, t) ==
    [i \in 1..Len(ts) |->
        IF ts[i].stoppedAt = NULL THEN [ts[i] EXCEPT !.stoppedAt = t] ELSE ts[i]]

RECURSIVE SumStopped(_, _, _)
SumStopped(ts, u, i) ==
    IF i = 0 THEN 0
    ELSE SumStopped(ts, u, i - 1)
         + (IF ts[i].teacher = u /\ ts[i].stoppedAt # NULL
            THEN ts[i].stoppedAt - ts[i].startedAt ELSE 0)

\* Session.get_teaching_time(user).
GetTeachingTime(ts, u) == SumStopped(ts, u, Len(ts))

\* utils.calculate_credits.
CalculateCredits(secs) == secs \div SecondsPerCredit

RunningCount(ts) == Cardinality({i \in 1..Len(ts) : ts[i].stoppedAt = NULL})

\* ---------------------------------------------------------------- requests
\* credit_summary as lines 172-188 build it: nothing spent, nothing earned,
\* bank_cut 0.
CreditSummary ==
    [spent |-> [user1 |-> FloatZero, user2 |-> FloatZero],
     earned |-> [user1 |-> FloatZero, user2 |-> FloatZero],
     bank_cut |-> FloatZero]

Role(s, u) == IF u = User1(s) THEN "user1" ELSE "user2"

Response(op, s, u, status) ==
    [op |-> op, s |-> s, u |-> u, status |-> status, secs1 |-> 0, secs2 |-> 0]

\* The Response of end, lines 155-159: the teaching times and the summary.
EndResponse(s, u, secs1, secs2, summary) ==
    [op |-> "end", s |-> s, u |-> u, status |-> "ok",
     secs1 |-> secs1, secs2 |-> secs2, summary |-> summary]

\* get_queryset / get_object: only the sessions of the caller are found.
InQueryset(s, u) == u \in {User1(s), User2(s)}

\* A request in flight: its place in the handler (pc) and the handler's
\* local variables: the session and caller, active_timer (a), the credits of
\* the User objects loaded with the session (cred), the teaching times, and
\* the total of the Bank object loaded by line 190 (bank).
Idle ==
    [pc |-> "idle", s |-> 0, u |-> "", a |-> 0,
     cred |-> [x \in Users |-> 0], secs1 |-> 0, secs2 |-> 0, bank |-> 0]

Init ==
    /\ now = 0
    /\ isActive = [s \in Sessions |-> TRUE]
    /\ timers = [s \in Sessions |-> <<>>]
    /\ balance \in {b \in [Users -> {c * Unit : c \in InitCredits}] :
                        b["u3"] = Unit /\ b["u4"] = Unit}
    /\ bank = 0
    /\ ledger = <<>>
    /\ resp = Response("none", 0, "", "none")
    /\ req = [p \in Procs |-> Idle]
    /\ InitChatVars

Tick(d) ==
    /\ UNCHANGED chatVars
    /\ now + d <= MaxNow
    /\ now' = now + d
    /\ UNCHANGED <<isActive, timers, balance, bank, ledger, resp, req>>

\* StartTimer with the other participant's timer left running (line 77 lost).
StartTimer_NoStopOther(s, u) ==
    /\ UNCHANGED chatVars
    /\ UNCHANGED <<now, isActive, balance, bank, ledger, req>>
    /\ IF ~InQueryset(s, u)
       THEN /\ resp' = Response("start", s, u, "NotFound")
            /\ UNCHANGED timers
       ELSE IF ~isActive[s]
       THEN /\ resp' = Response("start", s, u, "SessionInactive")
            /\ UNCHANGED timers
       ELSE LET a == GetActiveTimer(timers[s]) IN
            IF a # 0 /\ timers[s][a].teacher = u
            THEN /\ resp' = Response("start", s, u, "AlreadyRunning")
                 /\ UNCHANGED timers
            ELSE /\ Len(timers[s]) < MaxTimers
                 /\ timers' = [timers EXCEPT ![s] = NewTimer(@, u, now)]
                 /\ resp' = Response("start", s, u, "ok")

\* StartTimer with the test of line 71 lost: the caller's own running timer
\* is stopped and a new one started.
StartTimer_NoOwnerCheck(s, u) ==
    /\ UNCHANGED chatVars
    /\ UNCHANGED <<now, isActive, balance, bank, ledger, req>>
    /\ IF ~InQueryset(s, u)
       THEN /\ resp' = Response("start", s, u, "NotFound")
            /\ UNCHANGED timers
       ELSE IF ~isActive[s]
       THEN /\ resp' = Response("start", s, u, "SessionInactive")
            /\ UNCHANGED timers
       ELSE LET a == GetActiveTimer(timers[s]) IN
            /\ Len(timers[s]) < MaxTimers
            /\ timers' = [timers EXCEPT ![s] =
                   NewTimer(IF a # 0 THEN StopTimerAt(@, a, now) ELSE @, u, now)]
            /\ resp' = Response("start", s, u, "ok")

StartTimer(s, u) ==
    /\ UNCHANGED chatVars
    /\ UNCHANGED <<now, isActive, balance, bank, ledger, req>>
    /\ IF ~InQueryset(s, u)
       THEN /\ resp' = Response("start", s, u, "NotFound")
            /\ UNCHANGED timers
       ELSE IF u \notin {User1(s), User2(s)}
       THEN /\ resp' = Response("start", s, u, "NotParticipant")
            /\ UNCHANGED timers
       ELSE IF ~isActive[s]
       THEN /\ resp' = Response("start", s, u, "SessionInactive")
            /\ UNCHANGED timers
       ELSE LET a == GetActiveTimer(timers[s]) IN
            IF a # 0 /\ timers[s][a].teacher = u
            THEN /\ resp' = Response("start", s, u, "AlreadyRunning")
                 /\ UNCHANGED timers
            ELSE /\ Len(timers[s]) < MaxTimers
                 /\ timers' = [timers EXCEPT ![s] =
                        NewTimer(IF a # 0 THEN StopTimerAt(@, a, now) ELSE @, u, now)]
                 /\ resp' = Response("start", s, u, "ok")

\* StopTimer with the test of line 111 lost.
StopTimer_NoOwnerCheck(s, u) ==
    /\ UNCHANGED chatVars
    /\ UNCHANGED <<now, isActive, balance, bank, ledger, req>>
    /\ IF ~InQueryset(s, u)
       THEN /\ resp' = Response("stop", s, u, "NotFound")
            /\ UNCHANGED timers
       ELSE LET a == GetActiveTimer(timers[s]) IN
            IF a = 0
            THEN /\ resp' = Response("stop", s, u, "NoActiveTimer")
                 /\ UNCHANGED timers
            ELSE /\ timers' = [timers EXCEPT ![s] = StopTimerAt(@, a, now)]
                 /\ resp' = Response("stop", s, u, "ok")

StopTimer(s, u) ==
    /\ UNCHANGED chatVars
    /\ UNCHANGED <<now, isActive, balance, bank, ledger, req>>
    /\ IF ~InQueryset(s, u)
       THEN /\ resp' = Response("stop", s, u, "NotFound")
            /\ UNCHANGED timers
       ELSE IF u \notin {User1(s), User2(s)}
       THEN /\ resp' = Response("stop", s, u, "NotParticipant")
            /\ UNCHANGED timers
       ELSE LET a == GetActiveTimer(timers[s]) IN
            IF a = 0
            THEN /\ resp' = Response("stop", s, u, "NoActiveTimer")
                 /\ UNCHANGED timers
            ELSE IF timers[s][a].teacher # u
            THEN /\ resp' = Response("stop", s, u, "NotOwner")
                 /\ UNCHANGED timers
            ELSE /\ timers' = [timers EXCEPT ![s] = StopTimerAt(@, a, now)]
                 /\ resp' = Response("stop", s, u, "ok")

\* ------------------------------------------------------------- settlement
\* A settlement works on st = [cred, balance, bank, ledger]: cred holds the
\* credits of the request's own User objects (session.user1, session.user2,
\* loaded with the session), the other fields are the database rows.

\* CreditTransaction.record_transaction: one ledger entry, and the user's
\* balance moved by the same amount.
RecordTransaction(st, user, amount, type, s) ==
    [st EXCEPT
        !.ledger = Append(@, [user |-> user, amount |-> amount,
                              type |-> type, session |-> s]),
        !.balance[user] = @ + amount,
        !.cred[user] = @ + amount]

\* add_credits as a write of the loaded Bank object: its total, as it was
\* when line 190 loaded it, plus the amounts this request added.
AddCredits_FromLoadedObject(st, amount) ==
    [st EXCEPT !.bank = st.bankobj + amount, !.bankobj = @ + amount]

\* Bank.add_credits.
AddCredits(st, amount) == [st EXCEPT !.bank = @ + amount]

\* actual_credits * Decimal('0.10')
BankCut(actual) == (actual * BankCutPercent) \div 100

\* Direction with the cap of line 199 lost: the learner pays credits_needed.
Direction_NoCap(st, s, teacher, learner, secs) ==
    IF secs > 0
    THEN LET credits_needed == CalculateCredits(secs) * Unit
             actual_credits == credits_needed
         IN  IF actual_credits > 0
             THEN LET bank_cut == BankCut(actual_credits)
                      teacher_receives == actual_credits - bank_cut
                      done == AddCredits(
                          RecordTransaction(
                              RecordTransaction(st, learner, -actual_credits, "LEARNING", s),
                              teacher, teacher_receives, "TEACHING", s),
                          bank_cut)
                  IN  [done EXCEPT
                         !.summary.spent[Role(s, learner)] = Float(actual_credits),
                         !.summary.earned[Role(s, teacher)] = Float(teacher_receives),
                         !.summary.bank_cut = FloatAdd(@, Float(bank_cut))]
             ELSE st
    ELSE st

\* One direction of _process_credit_transfers: teacher taught secs seconds,
\* learner pays.
Direction(st, s, teacher, learner, secs) ==
    IF secs > 0
    THEN LET credits_needed == CalculateCredits(secs) * Unit
             learner_balance == st.cred[learner]
             actual_credits == Min(credits_needed, learner_balance)
         IN  IF actual_credits > 0
             THEN LET bank_cut == BankCut(actual_credits)
                      teacher_receives == actual_credits - bank_cut
                      done == AddCredits(
                          RecordTransaction(
                              RecordTransaction(st, learner, -actual_credits, "LEARNING", s),
                              teacher, teacher_receives, "TEACHING", s),
                          bank_cut)
                  IN  [done EXCEPT
                         !.summary.spent[Role(s, learner)] = Float(actual_credits),
                         !.summary.earned[Role(s, teacher)] = Float(teacher_receives),
                         !.summary.bank_cut = FloatAdd(@, Float(bank_cut))]
             ELSE st
    ELSE st

\* The two directions in the other order: user1 pays as a learner out of
\* the balance it had before it was credited as a teacher.
ProcessCreditTransfers_Direction2First(st, s, secs1, secs2) ==
    Direction(Direction(st, s, User2(s), User1(s), secs2),
              s, User1(s), User2(s), secs1)

\* _process_credit_transfers: user1 taught and user2 learns, then user2
\* taught and user1 learns.
ProcessCreditTransfers(st, s, secs1, secs2) ==
    Direction(Direction(st, s, User1(s), User2(s), secs1),
              s, User2(s), User1(s), secs2)

\* End with the test of line 143 lost.
End_NoEndedCheck(s, u) ==
    /\ UNCHANGED chatVars
    /\ UNCHANGED <<now, req>>
    /\ IF ~InQueryset(s, u)
       THEN /\ resp' = Response("end", s, u, "NotFound")
            /\ UNCHANGED <<isActive, timers, balance, bank, ledger>>
       ELSE LET ts == StopRunning(timers[s], now)
                secs1 == GetTeachingTime(ts, User1(s))
                secs2 == GetTeachingTime(ts, User2(s))
                st == ProcessCreditTransfers(
                          [cred |-> balance, balance |-> balance,
                           bank |-> bank, ledger |-> ledger,
                           bankobj |-> bank,
                           summary |-> CreditSummary], s, secs1, secs2)
            IN  /\ timers' = [timers EXCEPT ![s] = ts]
                /\ isActive' = [isActive EXCEPT ![s] = FALSE]
                /\ balance' = st.balance
                /\ bank' = st.bank
                /\ ledger' = st.ledger
                /\ resp' = EndResponse(s, u, secs1, secs2, st.summary)

\* End with the teaching times read before session.end_session() (lines
\* 169-170 ahead of line 150).
End_TotalsBeforeStop(s, u) ==
    /\ UNCHANGED chatVars
    /\ UNCHANGED <<now, req>>
    /\ IF ~InQueryset(s, u)
       THEN /\ resp' = Response("end", s, u, "NotFound")
            /\ UNCHANGED <<isActive, timers, balance, bank, ledger>>
       ELSE IF ~isActive[s]
       THEN /\ resp' = Response("end", s, u, "AlreadyEnded")
            /\ UNCHANGED <<isActive, timers, balance, bank, ledger>>
       ELSE LET ts == StopRunning(timers[s], now)
                secs1 == GetTeachingTime(timers[s], User1(s))
                secs2 == GetTeachingTime(timers[s], User2(s))
                st == ProcessCreditTransfers(
                          [cred |-> balance, balance |-> balance,
                           bank |-> bank, ledger |-> ledger,
                           bankobj |-> bank,
                           summary |-> CreditSummary], s, secs1, secs2)
            IN  /\ timers' = [timers EXCEPT ![s] = ts]
                /\ isActive' = [isActive EXCEPT ![s] = FALSE]
                /\ balance' = st.balance
                /\ bank' = st.bank
                /\ ledger' = st.ledger
                /\ resp' = EndResponse(s, u, secs1, secs2, st.summary)

End(s, u) ==
    /\ UNCHANGED chatVars
    /\ UNCHANGED <<now, req>>
    /\ IF ~InQueryset(s, u)
       THEN /\ resp' = Response("end", s, u, "NotFound")
            /\ UNCHANGED <<isActive, timers, balance, bank, ledger>>
       ELSE IF u \notin {User1(s), User2(s)}
       THEN /\ resp' = Response("end", s, u, "NotParticipant")
            /\ UNCHANGED <<isActive, timers, balance, bank, ledger>>
       ELSE IF ~isActive[s]
       THEN /\ resp' = Response("end", s, u, "AlreadyEnded")
            /\ UNCHANGED <<isActive, timers, balance, bank, ledger>>
       ELSE LET ts == StopRunning(timers[s], now)
                secs1 == GetTeachingTime(ts, User1(s))
                secs2 == GetTeachingTime(ts, User2(s))
                st == ProcessCreditTransfers(
                          [cred |-> balance, balance |-> balance,
                           bank |-> bank, ledger |-> ledger,
                           bankobj |-> bank,
                           summary |-> CreditSummary], s, secs1, secs2)
            IN  /\ timers' = [timers EXCEPT ![s] = ts]
                /\ isActive' = [isActive EXCEPT ![s] = FALSE]
                /\ balance' = st.balance
                /\ bank' = st.bank
                /\ ledger' = st.ledger
                /\ resp' = EndResponse(s, u, secs1, secs2, st.summary)

\* ------------------------------------------------ a fault in the settlement
\* One direction cut short by a fault after k of its three writes (the
\* debit of line 206, the credit of line 216, the Bank's cut of line 226).
DirectionUpTo(st, s, teacher, learner, secs, k) ==
    IF secs > 0
    THEN LET credits_needed == CalculateCredits(secs) * Unit
             learner_balance == st.cred[learner]
             actual_credits == Min(credits_needed, learner_balance)
         IN  IF actual_credits > 0
             THEN LET bank_cut == BankCut(actual_credits)
                      teacher_receives == actual_credits - bank_cut
                      w1 == IF k >= 1
                            THEN RecordTransaction(st, learner, -actual_credits,
                                                   "LEARNING", s)
                            ELSE st
                      w2 == IF k >= 2
                            THEN RecordTransaction(w1, teacher, teacher_receives,
                                                   "TEACHING", s)
                            ELSE w1
                  IN  IF k >= 3 THEN AddCredits(w2, bank_cut) ELSE w2
             ELSE st
    ELSE st

\* The body of the with block (lines 193-263) up to a fault after f write
\* places: the three of direction 1, then the three of direction 2.
TransfersUpTo(st, s, secs1, secs2, f) ==
    DirectionUpTo(DirectionUpTo(st, s, User1(s), User2(s), secs1, Min(f, 3)),
                  s, User2(s), User1(s), secs2, IF f > 3 THEN f - 3 ELSE 0)

FaultPoints == 0..6

\* transaction.atomic() with no rollback: the writes made before the fault stay.
TransactionAtomic_NoRollback(before, after, failed) == after

\* with transaction.atomic() (line 192): the rows as the block leaves them,
\* or, when the block raises, as they were when it was entered.
TransactionAtomic(before, after, failed) == IF failed THEN before ELSE after

FaultResponse(s, u, f) ==
    [op |-> "end", s |-> s, u |-> u, status |-> "Fault",
     secs1 |-> 0, secs2 |-> 0, at |-> f]

\* end with a fault raised inside the with block after f write places: the
\* exception leaves the view, no Response is built (a 500 goes out).
\* session.end_session() of line 150 ran before the block was entered.
EndFault(s, u, f) ==
    /\ UNCHANGED chatVars
    /\ UNCHANGED <<now, req>>
    /\ InQueryset(s, u)
    /\ isActive[s]
    /\ LET ts == StopRunning(timers[s], now)
           secs1 == GetTeachingTime(ts, User1(s))
           secs2 == GetTeachingTime(ts, User2(s))
           st0 == [cred |-> balance, balance |-> balance,
                   bank |-> bank, ledger |-> ledger, bankobj |-> bank,
                   summary |-> CreditSummary]
           st == TransactionAtomic(
                     st0, TransfersUpTo(st0, s, secs1, secs2, f), TRUE)
       IN  /\ timers' = [timers EXCEPT ![s] = ts]
           /\ isActive' = [isActive EXCEPT ![s] = FALSE]
           /\ balance' = st.balance
           /\ bank' = st.bank
           /\ ledger' = st.ledger
           /\ resp' = FaultResponse(s, u, f)

Next ==
    \/ \E d \in ClockSteps : Tick(d)
    \/ \E s \in AtomicSessions, u \in Callers : StartTimer(s, u)
    \/ \E s \in AtomicSessions, u \in Callers : StopTimer(s, u)
    \/ \E s \in AtomicSessions, u \in Callers : End(s, u)

Spec == Init /\ [][Next]_vars

\* ------------------------------------------------- settlements on their own
\* A session about to be ended: user1 taught d1 seconds, then user2 taught d2
\* seconds, the last timer stopped or still running.
SettleSeconds == {0, 299, 300, 650, 900}

History(d1, d2, open) ==
    (IF d1 > 0
     THEN << [teacher |-> User1(1), startedAt |-> 0, stoppedAt |-> d1] >>
     ELSE << >>)
    \o (IF d2 > 0
        THEN << [teacher |-> User2(1), startedAt |-> d1,
                 stoppedAt |-> IF open THEN NULL ELSE d1 + d2] >>
        ELSE << >>)

InitSettle ==
    \E d1 \in SettleSeconds, d2 \in SettleSeconds, open \in BOOLEAN :
        /\ now = d1 + d2
        /\ isActive = [s \in Sessions |-> TRUE]
        /\ timers = [s \in Sessions |-> IF s = 1 THEN History(d1, d2, open) ELSE << >>]
        /\ balance \in {b \in [Users -> {c * Unit : c \in InitCredits}] :
                            b["u3"] = Unit /\ b["u4"] = Unit}
        /\ bank = 0
        /\ ledger = << >>
        /\ resp = Response("none", 0, "", "none")
        /\ req = [p \in Procs |-> Idle]
        /\ InitChatVars

NextSettle ==
    \/ \E u \in Callers : End(1, u)
    \/ \E u \in Callers, f \in FaultPoints : EndFault(1, u, f)

SpecSettle == InitSettle /\ [][NextSettle]_vars

\* ------------------------------------------------------ concurrent requests
\* The handlers again, one database access a step.  Nothing in them takes a
\* lock: the session row and its users are read by get_object and line 55,
\* the timers by get_active_timer, and each save is a step of its own.  The
\* writes inside transaction.atomic() (lines 192-263) are one step.  The
\* response of a concurrent request is not kept.
ConcSteps == {300}
ConcCredits == {1}

InitConc ==
    /\ now = 0
    /\ isActive = [s \in Sessions |-> TRUE]
    /\ timers = [s \in Sessions |-> <<>>]
    /\ balance \in [Users -> {c * Unit : c \in ConcCredits}]
    /\ bank = 0
    /\ ledger = <<>>
    /\ resp = Response("none", 0, "", "none")
    /\ req = [p \in Procs |-> Idle]
    /\ InitChatVars

Begin(p, pc, s, u) ==
    [req EXCEPT ![p] = [Idle EXCEPT !.pc = pc, !.s = s, !.u = u]]

Goto(p, pc) == [req EXCEPT ![p].pc = pc]

Return(p) == [req EXCEPT ![p] = Idle]

ConcTick(d) ==
    /\ UNCHANGED chatVars
    /\ now + d <= MaxNow
    /\ now' = now + d
    /\ UNCHANGED <<isActive, timers, balance, bank, ledger, resp, req>>

\* start_timer, lines 51-66: get_object and the tests on the session read.
StartBegin(p, s, u) ==
    /\ UNCHANGED chatVars
    /\ req[p].pc = "idle"
    /\ InQueryset(s, u)
    /\ req' = IF isActive[s] THEN Begin(p, "start_query", s, u) ELSE req
    /\ UNCHANGED <<now, isActive, timers, balance, bank, ledger, resp>>

\* start_timer, lines 69-75: get_active_timer.
StartQuery(p) ==
    /\ UNCHANGED chatVars
    /\ req[p].pc = "start_query"
    /\ LET a == GetActiveTimer(timers[req[p].s]) IN
       req' = IF a # 0 /\ timers[req[p].s][a].teacher = req[p].u
              THEN Return(p)
              ELSE IF a # 0
              THEN [req EXCEPT ![p].pc = "start_stop", ![p].a = a]
              ELSE Goto(p, "start_create")
    /\ UNCHANGED <<now, isActive, timers, balance, bank, ledger, resp>>

\* start_timer, line 77: active_timer.stop().
StartStop(p) ==
    /\ UNCHANGED chatVars
    /\ req[p].pc = "start_stop"
    /\ timers' = [timers EXCEPT ![req[p].s] = StopTimerAt(@, req[p].a, now)]
    /\ req' = Goto(p, "start_create")
    /\ UNCHANGED <<now, isActive, balance, bank, ledger, resp>>

\* start_timer, line 80: SessionTimer.start_timer.
StartCreate(p) ==
    /\ UNCHANGED chatVars
    /\ req[p].pc = "start_create"
    /\ Len(timers[req[p].s]) < MaxTimers
    /\ timers' = [timers EXCEPT ![req[p].s] = NewTimer(@, req[p].u, now)]
    /\ req' = Return(p)
    /\ UNCHANGED <<now, isActive, balance, bank, ledger, resp>>

\* stop_timer, lines 92-115: get_object, get_active_timer and the tests.
StopBegin(p, s, u) ==
    /\ UNCHANGED chatVars
    /\ req[p].pc = "idle"
    /\ InQueryset(s, u)
    /\ LET a == GetActiveTimer(timers[s]) IN
       req' = IF a # 0 /\ timers[s][a].teacher = u
              THEN [Begin(p, "stop_save", s, u) EXCEPT ![p].a = a]
              ELSE req
    /\ UNCHANGED <<now, isActive, timers, balance, bank, ledger, resp>>

\* stop_timer, line 118: active_timer.stop().
StopSave(p) ==
    /\ UNCHANGED chatVars
    /\ req[p].pc = "stop_save"
    /\ timers' = [timers EXCEPT ![req[p].s] = StopTimerAt(@, req[p].a, now)]
    /\ req' = Return(p)
    /\ UNCHANGED <<now, isActive, balance, bank, ledger, resp>>

\* end, lines 132-147: get_object, session.user1 and session.user2 loaded by
\* line 136, and the test of is_active.
EndBegin(p, s, u) ==
    /\ UNCHANGED chatVars
    /\ req[p].pc = "idle"
    /\ InQueryset(s, u)
    /\ req' = IF isActive[s]
              THEN [Begin(p, "end_session", s, u) EXCEPT
                       ![p].cred = [x \in Users |->
                           IF x \in {User1(s), User2(s)} THEN balance[x] ELSE 0]]
              ELSE req
    /\ UNCHANGED <<now, isActive, timers, balance, bank, ledger, resp>>

\* end, line 150: session.end_session().
EndSession(p) ==
    /\ UNCHANGED chatVars
    /\ req[p].pc = "end_session"
    /\ timers' = [timers EXCEPT ![req[p].s] = StopRunning(@, now)]
    /\ isActive' = [isActive EXCEPT ![req[p].s] = FALSE]
    /\ req' = Goto(p, "end_totals")
    /\ UNCHANGED <<now, balance, bank, ledger, resp>>

\* _process_credit_transfers, lines 169-190: the teaching times, and the
\* Bank object of Bank.get_instance().
EndTotals(p) ==
    /\ UNCHANGED chatVars
    /\ req[p].pc = "end_totals"
    /\ req' = [req EXCEPT
                 ![p].pc = "end_settle",
                 ![p].secs1 = GetTeachingTime(timers[req[p].s], User1(req[p].s)),
                 ![p].secs2 = GetTeachingTime(timers[req[p].s], User2(req[p].s)),
                 ![p].bank = bank]
    /\ UNCHANGED <<now, isActive, timers, balance, bank, ledger, resp>>

\* _process_credit_transfers, lines 192-263: the transaction.  The learner
\* balances it reads are those of the User objects loaded in EndBegin.
EndSettle(p) ==
    /\ UNCHANGED chatVars
    /\ req[p].pc = "end_settle"
    /\ LET st == ProcessCreditTransfers(
                     [cred |-> req[p].cred, balance |-> balance,
                      bank |-> bank, ledger |-> ledger,
                      bankobj |-> req[p].bank,
                      summary |-> CreditSummary],
                     req[p].s, req[p].secs1, req[p].secs2)
       IN  /\ balance' = st.balance
           /\ bank' = st.bank
           /\ ledger' = st.ledger
    /\ req' = Return(p)
    /\ UNCHANGED <<now, isActive, timers, resp>>

Steps(p) ==
    \/ StartQuery(p)
    \/ StartStop(p)
    \/ StartCreate(p)
    \/ StopSave(p)
    \/ EndSession(p)
    \/ EndTotals(p)
    \/ EndSettle(p)

\* The two participants of session 1, each with one request at a time.
Caller(p) == IF p = 1 THEN User1(1) ELSE User2(1)

NextConc ==
    \/ \E d \in ConcSteps : ConcTick(d)
    \/ \E p \in Procs : StartBegin(p, 1, Caller(p))
    \/ \E p \in Procs : StopBegin(p, 1, Caller(p))
    \/ \E p \in Procs : EndBegin(p, 1, Caller(p))
    \/ \E p \in Procs : Steps(p)

SpecConc == InitConc /\ [][NextConc]_vars

\* Two sessions that share the learner u2, request p on session p, every
\* request made by the session's user1, who teaches (so no request finds a
\* timer of the other participant to stop).
NextShared ==
    \/ \E d \in ConcSteps : ConcTick(d)
    \/ \E p \in Procs : StartBegin(p, p, User1(p))
    \/ \E p \in Procs : StopBegin(p, p, User1(p))
    \/ \E p \in Procs : EndBegin(p, p, User1(p))
    \/ \E p \in Procs :
          \/ StartQuery(p)
          \/ StartCreate(p)
          \/ StopSave(p)
          \/ EndSession(p)
          \/ EndTotals(p)
          \/ EndSettle(p)

SpecShared == InitConc /\ [][NextShared]_vars

\* Two sessions with no participant in common, sessions 1 and 3, request p
\* on its own session and made by the session's user1, who teaches.
Own(p) == IF p = 1 THEN 1 ELSE 3

NextDisjoint ==
    \/ \E d \in ConcSteps : ConcTick(d)
    \/ \E p \in Procs : StartBegin(p, Own(p), User1(Own(p)))
    \/ \E p \in Procs : StopBegin(p, Own(p), User1(Own(p)))
    \/ \E p \in Procs : EndBegin(p, Own(p), User1(Own(p)))
    \/ \E p \in Procs :
          \/ StartQuery(p)
          \/ StartCreate(p)
          \/ StopSave(p)
          \/ EndSession(p)
          \/ EndTotals(p)
          \/ EndSettle(p)

SpecDisjoint == InitConc /\ [][NextDisjoint]_vars

\* ------------------------------------------------------------------- chat
\* Close code of a connection that is not a participant's (chat.py, line 25).
PolicyViolation == 4003

\* Inbound frames are bounded: at most MaxFrames of them.
MaxFrames == 1

\* The texts of the chat_message frames, character by character: empty,
\* blank, and with spaces before, after and inside.
Texts ==
    { << >>, <<" ">>, <<" ", " ">>, <<"h">>, <<" ", "h">>, <<"h", " ">>,
      <<" ", "h", " ">>, <<"h", " ", "i">> }

\* The frames a client sends: chat_message with or without a message
\* field, typing with or without is_typing.
ChatFrames ==
    {[type |-> "chat_message", message |-> m] : m \in Texts}
        \cup {[type |-> "chat_message"]}

TypingFrames ==
    {[type |-> "typing", is_typing |-> b] : b \in BOOLEAN}
        \cup {[type |-> "typing"]}

\* dict.get(key, default)
Get(data, key, default) == IF key \in DOMAIN data THEN data[key] ELSE default

\* str.strip(): without the spaces it starts and ends with.
Strip(text) ==
    LET solid == {i \in 1..Len(text) : text[i] # " "}
    IN  IF solid = {} THEN << >>
        ELSE SubSeq(text,
                    CHOOSE i \in solid : \A j \in solid : i <= j,
                    CHOOSE i \in solid : \A j \in solid : i >= j)

\* get_user_data: the display data of a user.
GetUserData(u) == [id |-> u, name |-> u]

\* verify_session_participant with the membership test lost: every
\* identity passes for a session that exists.
VerifySessionParticipant_AnyUser(u, sid) == sid \in Sessions

\* verify_session_participant, lines 120-129.
VerifySessionParticipant(u, sid) ==
    IF sid \in Sessions
    THEN u \in {User1(sid), User2(sid)}
    ELSE FALSE

\* get_groups, lines 18-28: the groups to join (the group chat_<sid> is
\* named by sid), or none and the connection closed.
GetGroups(u, sid) ==
    IF ~VerifySessionParticipant(u, sid)
    THEN [closed |-> TRUE, code |-> PolicyViolation, groups |-> {}]
    ELSE [closed |-> FALSE, code |-> 0, groups |-> {sid}]

\* broadcast_to_group: the event is put on the channel of every member.
BroadcastToGroup(ch, members, event) ==
    [c \in Conns |-> IF c \in members THEN Append(ch[c], event) ELSE ch[c]]

\* on_connected, lines 30-38.
OnConnected(ch, members, u) ==
    BroadcastToGroup(ch, members,
                     [type |-> "user_joined", user |-> GetUserData(u)])

\* on_disconnected, lines 40-48.
OnDisconnected(ch, members, u) ==
    BroadcastToGroup(ch, members,
                     [type |-> "user_left", user |-> GetUserData(u)])

\* A connection attempt by identity u for session sid: get_groups, then,
\* unless it closed the connection, the group joined and on_connected.
Connect(c, u, sid) ==
    /\ UNCHANGED sessionVars
    /\ UNCHANGED <<out, last, gate>>
    /\ conn[c].st = "none"
    /\ LET g == GetGroups(u, sid)
       IN  IF g.closed
           THEN /\ conn' = [conn EXCEPT ![c] = [user |-> u, sid |-> sid,
                                                st |-> "rejected", code |-> g.code]]
                /\ UNCHANGED <<group, chan>>
           ELSE /\ conn' = [conn EXCEPT ![c] = [user |-> u, sid |-> sid,
                                                st |-> "open", code |-> 0]]
                /\ group' = [x \in ChatSessions |->
                                IF x \in g.groups THEN group[x] \cup {c} ELSE group[x]]
                /\ chan' = OnConnected(chan, group'[sid], u)

\* The client of an open connection goes away: the group left, the events
\* still on its channel dropped, and on_disconnected.
Disconnect(c) ==
    /\ UNCHANGED sessionVars
    /\ UNCHANGED <<out, last, gate>>
    /\ conn[c].st = "open"
    /\ conn' = [conn EXCEPT ![c].st = "closed"]
    /\ group' = [x \in ChatSessions |-> group[x] \ {c}]
    /\ chan' = OnDisconnected([chan EXCEPT ![c] = << >>],
                              group'[conn[c].sid], conn[c].user)

\* The client of a connection that was closed by get_groups goes away:
\* nothing more is processed for it.
DisconnectRejected(c) ==
    /\ UNCHANGED sessionVars
    /\ UNCHANGED <<group, chan, out, last, gate>>
    /\ conn[c].st = "rejected"
    /\ conn' = [conn EXCEPT ![c].st = "closed"]

\* handle_chat_message with the test of line 55 lost.
HandleChatMessage_NoBlankTest(ch, c, data) ==
    BroadcastToGroup(ch, group[conn[c].sid],
                     [type |-> "chat_message",
                      sender |-> GetUserData(conn[c].user).name,
                      message |-> Strip(Get(data, "message", << >>)),
                      timestamp |-> now])

\* handle_chat_message, lines 50-70.
HandleChatMessage(ch, c, data) ==
    LET message == Strip(Get(data, "message", << >>))
    IN  IF message = << >>
        THEN ch
        ELSE BroadcastToGroup(ch, group[conn[c].sid],
                              [type |-> "chat_message",
                               sender |-> GetUserData(conn[c].user).name,
                               message |-> message,
                               timestamp |-> now])

\* handle_typing, lines 72-84.
HandleTyping(ch, c, data) ==
    BroadcastToGroup(ch, group[conn[c].sid],
                     [type |-> "typing_indicator",
                      user |-> GetUserData(conn[c].user),
                      is_typing |-> Get(data, "is_typing", FALSE)])

\* A chat_message frame arrives on an open connection.
ReceiveChatMessage(c, data) ==
    /\ UNCHANGED sessionVars
    /\ UNCHANGED <<conn, group, out, gate>>
    /\ conn[c].st = "open"
    /\ last.n < MaxFrames
    /\ last' = [c |-> c, n |-> last.n + 1, data |-> data]
    /\ chan' = HandleChatMessage(chan, c, data)

\* A typing frame arrives on an open connection.
ReceiveTyping(c, data) ==
    /\ UNCHANGED sessionVars
    /\ UNCHANGED <<conn, group, out, gate>>
    /\ conn[c].st = "open"
    /\ last.n < MaxFrames
    /\ last' = [c |-> c, n |-> last.n + 1, data |-> data]
    /\ chan' = HandleTyping(chan, c, data)

\* user_joined, lines 87-92.
UserJoined(sent, event) ==
    Append(sent, [type |-> "user_joined", user |-> event.user])

\* user_left, lines 94-99.
UserLeft(sent, event) ==
    Append(sent, [type |-> "user_left", user |-> event.user])

\* chat_message, lines 101-108.
ChatMessage(sent, event) ==
    Append(sent, [type |-> "chat_message", sender |-> event.sender,
                  message |-> event.message, timestamp |-> event.timestamp])

\* typing_indicator with the test of line 113 lost.
TypingIndicator_NoFilter(sent, event, user) ==
    Append(sent, [type |-> "typing", user |-> event.user,
                  is_typing |-> event.is_typing])

\* typing_indicator, lines 110-118.
TypingIndicator(sent, event, user) ==
    IF event.user.id # user
    THEN Append(sent, [type |-> "typing", user |-> event.user,
                       is_typing |-> event.is_typing])
    ELSE sent

\* The consumer of an open connection takes the next group event off its
\* channel and runs the handler named by the event's type.
Deliver(c) ==
    /\ UNCHANGED sessionVars
    /\ UNCHANGED <<conn, group, last, gate>>
    /\ conn[c].st = "open"
    /\ chan[c] # << >>
    /\ chan' = [chan EXCEPT ![c] = Tail(@)]
    /\ LET event == Head(chan[c])
       IN  out' = [out EXCEPT ![c] =
                     IF event.type = "user_joined" THEN UserJoined(@, event)
                     ELSE IF event.type = "user_left" THEN UserLeft(@, event)
                     ELSE IF event.type = "chat_message" THEN ChatMessage(@, event)
                     ELSE TypingIndicator(@, event, conn[c].user)]

\* Who connects: u1 and u2, the participants of session 1, on connections 1
\* and 2; on connection 3 an outsider, an anonymous identity, or u1 asking
\* for a session that does not exist.
Attempts(c) ==
    IF c = 1 THEN {<<User1(1), 1>>}
    ELSE IF c = 2 THEN {<<User2(1), 1>>}
    ELSE {<<"u3", 1>>, <<Anonymous, 1>>, <<User1(1), 9>>}

NextChat ==
    \/ \E c \in Conns : \E a \in Attempts(c) : Connect(c, a[1], a[2])
    \/ \E c \in Conns : Disconnect(c)
    \/ \E c \in Conns : DisconnectRejected(c)
    \/ \E c \in Conns : \E data \in ChatFrames : ReceiveChatMessage(c, data)
    \/ \E c \in Conns : \E data \in TypingFrames : ReceiveTyping(c, data)
    \/ \E c \in Conns : Deliver(c)

SpecChat == InitConc /\ [][NextChat]_vars

\* --------------------------------------------------------------- the gate
\* Strings are kept as sequences of atoms: the characters = and &, the
\* words token and access_token_, the credential J, which verifies as u1,
\* and the text B, which does not verify.
MaxQuery == 3
MaxOffered == 2

QueryAtoms == {"token", "=", "&", "J", "B"}
ProtocolAtoms == {"access_token_", "J", "B"}

QueryStrings == UNION {[1..n -> QueryAtoms] : n \in 0..MaxQuery}

\* The protocols a client offers: the credential behind the prefix, the
\* prefix alone, a text without the prefix, and the prefix twice.
Protocols ==
    { <<"access_token_", "J">>, <<"access_token_", "B">>, <<"access_token_">>,
      <<"J">>, <<"access_token_", "J", "access_token_">> }

Offers == UNION {[1..n -> Protocols] : n \in 0..MaxOffered}

\* str.split(sep): the pieces of text between the separators.
Split(text, sep) ==
    LET at == {i \in 1..Len(text) : text[i] = sep}
        cut(k) == IF k = 0 THEN 0
                  ELSE IF k > Cardinality(at) THEN Len(text) + 1
                  ELSE CHOOSE i \in at : Cardinality({j \in at : j <= i}) = k
    IN  [k \in 1..(Cardinality(at) + 1) |-> SubSeq(text, cut(k - 1) + 1, cut(k) - 1)]

\* str.replace(old, ''): text without any occurrence of the atom old.
RECURSIVE Remove(_, _)
Remove(text, old) ==
    IF text = << >> THEN << >>
    ELSE (IF Head(text) = old THEN << >> ELSE <<Head(text)>>)
         \o Remove(Tail(text), old)

\* Line 38: the pieces of the query string that hold an =, each split at
\* its = signs, made into a dict: dict() raises ValueError on a piece that
\* does not split in two.  Line 39: the value of the key token, the last
\* one given; no text (None) without one.
QueryToken(query_string) ==
    LET pieces == Split(query_string, "&")
        params == {i \in 1..Len(pieces) : \E k \in 1..Len(pieces[i]) : pieces[i][k] = "="}
        pair(i) == Split(pieces[i], "=")
        tokens == {i \in params : pair(i)[1] = <<"token">>}
    IN  IF \E i \in params : Len(pair(i)) # 2
        THEN [raised |-> TRUE, token |-> << >>]
        ELSE IF tokens = {}
        THEN [raised |-> FALSE, token |-> << >>]
        ELSE [raised |-> FALSE,
              token |-> pair(CHOOSE i \in tokens : \A j \in tokens : j <= i)[2]]

\* Lines 43-47: the first offered protocol that starts with access_token_,
\* with every access_token_ in it replaced by nothing.
SubprotocolToken(subprotocols) ==
    LET with == {i \in 1..Len(subprotocols) :
                    /\ subprotocols[i] # << >>
                    /\ subprotocols[i][1] = "access_token_"}
    IN  IF with = {} THEN << >>
        ELSE Remove(subprotocols[CHOOSE i \in with : \A j \in with : i <= j],
                    "access_token_")

\* get_user_from_token, lines 8-19: the user of a token that verifies,
\* AnonymousUser for one that does not.
GetUserFromToken(token_key) ==
    IF token_key = <<"J">> THEN "u1" ELSE Anonymous

\* JWTAuthMiddleware.__call__, lines 31-59, for the connection at the gate.
JWTAuthMiddlewareCall ==
    /\ UNCHANGED sessionVars
    /\ UNCHANGED <<conn, group, chan, out, last>>
    /\ gate.pc = "arrived"
    /\ LET params == IF gate.query # << >>
                     THEN QueryToken(gate.query)
                     ELSE [raised |-> FALSE, token |-> << >>]
           token == IF params.token # << >>
                    THEN params.token
                    ELSE SubprotocolToken(gate.subprotocols)
       IN  gate' = IF params.raised
                   THEN [gate EXCEPT !.pc = "raised"]
                   ELSE [gate EXCEPT
                           !.pc = "passed",
                           !.user = IF token # << >>
                                    THEN GetUserFromToken(token)
                                    ELSE Anonymous]

\* A connection arrives with any query string and any offer of protocols.
InitGate ==
    /\ now = 0
    /\ isActive = [s \in Sessions |-> TRUE]
    /\ timers = [s \in Sessions |-> << >>]
    /\ balance = [u \in Users |-> Unit]
    /\ bank = 0
    /\ ledger = << >>
    /\ resp = Response("none", 0, "", "none")
    /\ req = [p \in Procs |-> Idle]
    /\ conn = [c \in Conns |-> NoConn]
    /\ group = [g \in ChatSessions |-> {}]
    /\ chan = [c \in Conns |-> << >>]
    /\ out = [c \in Conns |-> << >>]
    /\ last = NoFrame
    /\ \E q \in QueryStrings, offered \in Offers :
          gate = [pc |-> "arrived", query |-> q, subprotocols |-> offered,
                  user |-> ""]

NextGate == JWTAuthMiddlewareCall

SpecGate == InitGate /\ [][NextGate]_vars

\* --------------------------------------------------- properties under Spec
\* A step of Spec is the request resp' answers when the clock stands still.
IsRequest(op, s, u) ==
    /\ now' = now
    /\ resp'.op = op /\ resp'.s = s /\ resp'.u = u

Participants(s) == {User1(s), User2(s)}

TeacherOf(ts) == ts[GetActiveTimer(ts)].teacher

\* C1: whatever startTimer, stopTimer and endSession requests were served,
\* each as one indivisible step, a session has at most one timer with
\* stoppedAt = NULL.
C1_AtMostOneRunning == \A s \in Sessions : RunningCount(timers[s]) <= 1

\* A session whose timer was switched: one stopped timer, one running.
C1_Witness ==
    \E s \in Sessions :
        /\ Len(timers[s]) = 2
        /\ timers[s][1].stoppedAt # NULL
        /\ timers[s][2].stoppedAt = NULL
        /\ timers[s][1].teacher # timers[s][2].teacher

\* C3: startTimer by the teacher of the running timer answers
\* AlreadyRunning and changes no timer and no session.
C3_AlreadyRunningUnchanged ==
    [][\A s \in Sessions : \A u \in Participants(s) :
        (/\ IsRequest("start", s, u)
         /\ GetActiveTimer(timers[s]) # 0
         /\ TeacherOf(timers[s]) = u)
        => /\ resp'.status = "AlreadyRunning"
           /\ timers' = timers
           /\ isActive' = isActive
           /\ TeacherOf(timers'[s]) = u]_vars

\* The caller's timer has run for a while and the caller was refused.
C3_Witness ==
    \E s \in Sessions :
        /\ GetActiveTimer(timers[s]) # 0
        /\ timers[s][GetActiveTimer(timers[s])].startedAt < now
        /\ resp = Response("start", s, TeacherOf(timers[s]), "AlreadyRunning")

\* C4: startTimer on an active session whose running timer is the other
\* participant's succeeds: that timer is stopped at the time of the switch,
\* its startedAt kept, and a new running timer of the caller is the only
\* running timer.
C4_SwitchStopsOther ==
    [][\A s \in Sessions : \A u \in Participants(s) :
        (/\ IsRequest("start", s, u)
         /\ isActive[s]
         /\ GetActiveTimer(timers[s]) # 0
         /\ TeacherOf(timers[s]) # u)
        => LET a == GetActiveTimer(timers[s]) IN
           /\ resp'.status = "ok"
           /\ Len(timers'[s]) = Len(timers[s]) + 1
           /\ \A i \in 1..Len(timers[s]) :
                 timers'[s][i] =
                    IF i = a THEN [timers[s][a] EXCEPT !.stoppedAt = now]
                    ELSE timers[s][i]
           /\ timers'[s][a].stoppedAt - timers'[s][a].startedAt
                 = now - timers[s][a].startedAt
           /\ timers'[s][Len(timers'[s])] =
                 [teacher |-> u, startedAt |-> now, stoppedAt |-> NULL]
           /\ RunningCount(timers'[s]) = 1
           /\ TeacherOf(timers'[s]) = u]_vars

\* A switch after the first timer ran for a while.
C4_Witness ==
    \E s \in Sessions :
        /\ Len(timers[s]) = 2
        /\ timers[s][1].stoppedAt = now
        /\ timers[s][1].startedAt < now
        /\ timers[s][2] = [teacher |-> resp.u, startedAt |-> now, stoppedAt |-> NULL]
        /\ timers[s][1].teacher # resp.u
        /\ resp = Response("start", s, resp.u, "ok")

\* C5: stopTimer answers NoActiveTimer when nothing runs and NotOwner when
\* the running timer is the other participant's, changing no timer; only the
\* teacher's own call stops the running timer, and then nothing runs.  No
\* stopTimer call stops a timer of another teacher.
C5_StopOwnTimerOnly ==
    [][\A s \in Sessions : \A u \in Participants(s) :
        IsRequest("stop", s, u)
        => LET a == GetActiveTimer(timers[s]) IN
           /\ a = 0 => resp'.status = "NoActiveTimer" /\ timers' = timers
           /\ (a # 0 /\ timers[s][a].teacher # u)
                => resp'.status = "NotOwner" /\ timers' = timers
           /\ (a # 0 /\ timers[s][a].teacher = u)
                => /\ resp'.status = "ok"
                   /\ timers' = [timers EXCEPT ![s][a].stoppedAt = now]
                   /\ GetActiveTimer(timers'[s]) = 0
           /\ \A i \in 1..Len(timers[s]) :
                 (timers[s][i].stoppedAt = NULL /\ timers'[s][i].stoppedAt # NULL)
                    => timers[s][i].teacher = u]_vars

\* The other participant's timer is running and the caller was refused.
C5_Witness ==
    \E s \in Sessions : \E u \in Participants(s) :
        /\ GetActiveTimer(timers[s]) # 0
        /\ TeacherOf(timers[s]) # u
        /\ timers[s][GetActiveTimer(timers[s])].startedAt < now
        /\ resp = Response("stop", s, u, "NotOwner")

\* C7: endSession on a session already ended answers AlreadyEnded and
\* changes no timer, ledger entry, balance or the Bank; isActive never goes
\* from false to true, so it goes from true to false once.
C7_EndIsTerminal ==
    [][/\ \A s \in Sessions : isActive'[s] => isActive[s]
       /\ \A s \in Sessions : \A u \in Participants(s) :
            (IsRequest("end", s, u) /\ ~isActive[s])
            => /\ resp'.status = "AlreadyEnded"
               /\ UNCHANGED <<isActive, timers, balance, bank, ledger>>]_vars

\* A settled session whose second endSession was refused.
C7_Witness ==
    \E s \in Sessions : \E u \in Participants(s) :
        /\ ~isActive[s]
        /\ Len(ledger) > 0
        /\ resp = Response("end", s, u, "AlreadyEnded")

\* C8: endSession on an active session with a running timer stops that timer
\* at the end time, whoever its teacher is, marks the session inactive, and
\* the teaching seconds the settlement uses for that teacher are the
\* teacher's stopped time before plus the interval of that timer up to now;
\* when that time is worth a credit the learner can pay, the teacher is
\* credited.
C8_EndStopsRunningTimer ==
    [][\A s \in Sessions : \A u \in Participants(s) :
        (/\ IsRequest("end", s, u)
         /\ isActive[s]
         /\ GetActiveTimer(timers[s]) # 0)
        => LET a == GetActiveTimer(timers[s])
               t == timers[s][a].teacher
               l == IF t = User1(s) THEN User2(s) ELSE User1(s)
               used == IF t = User1(s) THEN resp'.secs1 ELSE resp'.secs2
           IN  /\ resp'.status = "ok"
               /\ timers' = [timers EXCEPT ![s][a].stoppedAt = now]
               /\ ~isActive'[s]
               /\ used = GetTeachingTime(timers[s], t) + (now - timers[s][a].startedAt)
               /\ (used >= SecondsPerCredit /\ balance[l] > 0)
                    => \E i \in (Len(ledger) + 1)..Len(ledger') :
                          /\ ledger'[i].user = t
                          /\ ledger'[i].type = "TEACHING"
                          /\ ledger'[i].session = s]_vars

\* The session was ended by the participant who was not teaching, and the
\* teacher's timer, stopped at the end time, was paid.
C8_Witness ==
    \E s \in Sessions :
        LET n == Len(timers[s]) IN
        /\ n > 0
        /\ resp.op = "end" /\ resp.s = s /\ resp.status = "ok"
        /\ timers[s][n].teacher # resp.u
        /\ timers[s][n].stoppedAt = now
        /\ timers[s][n].startedAt < now
        /\ \E i \in 1..Len(ledger) :
              ledger[i].user = timers[s][n].teacher /\ ledger[i].type = "TEACHING"

\* The ledger entries, the teacher's gain and the Bank's of one direction.
DirActual(secs, b) == Min((secs \div 300) * Unit, b)
DirCut(actual) == actual \div 10
DirEntries(s, teacher, learner, actual) ==
    IF actual > 0
    THEN << [user |-> learner, amount |-> -actual, type |-> "LEARNING", session |-> s],
            [user |-> teacher, amount |-> actual - DirCut(actual),
             type |-> "TEACHING", session |-> s] >>
    ELSE << >>

\* C9: a settlement applies, for user1 teaching user2 and then for user2
\* teaching user1, actual = min(floor(s / 300), b) with b the learner's
\* balance when the direction is applied: for actual > 0 one LEARNING entry
\* of -actual, one TEACHING entry of actual less a tenth, a tenth to the
\* Bank; for actual = 0 no entry and no balance change.  The tenth is exact.
C9_DirectionAmounts ==
    [][\A s \in Sessions : \A u \in Participants(s) :
        (IsRequest("end", s, u) /\ resp'.status = "ok")
        => LET a1 == DirActual(resp'.secs1, balance[User2(s)])
               b1 == balance[User1(s)] + a1 - DirCut(a1)
               a2 == DirActual(resp'.secs2, b1)
           IN  /\ a1 % 10 = 0 /\ a2 % 10 = 0
               /\ ledger' = ledger \o DirEntries(s, User1(s), User2(s), a1)
                                   \o DirEntries(s, User2(s), User1(s), a2)
               /\ bank' = bank + DirCut(a1) + DirCut(a2)
               /\ balance' = [balance EXCEPT
                      ![User1(s)] = @ + (a1 - DirCut(a1)) - a2,
                      ![User2(s)] = @ - a1 + (a2 - DirCut(a2))]]_vars

\* The example of the specification: 650 seconds taught by user1, a learner
\* who held 5 credits: -2 for the learner, +1.8 for the teacher, 0.2 for
\* the Bank.
C9_Witness ==
    /\ resp.op = "end" /\ resp.status = "ok" /\ resp.s = 1
    /\ resp.secs1 = 650 /\ resp.secs2 = 0
    /\ ledger = << [user |-> "u2", amount |-> -2 * Unit, type |-> "LEARNING", session |-> 1],
                   [user |-> "u1", amount |-> 18000, type |-> "TEACHING", session |-> 1] >>
    /\ bank = 2000
    /\ balance["u2"] = 3 * Unit

\* --------------------------------------- properties under concurrent requests
\* C2: with the steps of the two participants' startTimer and stopTimer
\* calls on one session interleaved, no two timers of the session are
\* running together.
C2_NoTwoRunningConcurrent ==
    \A s \in Sessions :
        ~ \E i, j \in 1..Len(timers[s]) :
              /\ i < j
              /\ timers[s][i].stoppedAt = NULL
              /\ timers[s][j].stoppedAt = NULL

\* C6: a session whose isActive is false has no running timer, also when a
\* startTimer call overlaps an endSession call.
C6_EndedHasNoRunningTimer ==
    \A s \in Sessions : ~isActive[s] => GetActiveTimer(timers[s]) = 0

\* C10: no balance is negative, also when two sessions that share a learner
\* are settled concurrently.
C10_BalanceNeverNegative == \A u \in Users : balance[u] >= 0

\* C19: whatever the interleaving of the end requests on a session, the
\* ledger holds at most one LEARNING and one TEACHING entry per direction
\* of the session (per learner and per teacher).
C19_SettledAtMostOnce ==
    \A s \in Sessions : \A x \in Participants(s) :
        \A type \in {"LEARNING", "TEACHING"} :
            Cardinality({i \in 1..Len(ledger) :
                            /\ ledger[i].session = s
                            /\ ledger[i].user = x
                            /\ ledger[i].type = type}) <= 1

\* The cuts of the directions applied so far: a tenth of every debit.
RECURSIVE SumOfCuts(_)
SumOfCuts(l) ==
    IF l = << >> THEN 0
    ELSE (IF Head(l).type = "LEARNING" THEN (-Head(l).amount) \div 10 ELSE 0)
         + SumOfCuts(Tail(l))

\* C14: with sessions that share no participant settled concurrently, the
\* Bank holds its initial total (0) plus the cut of every applied direction.
C14_NoBankUpdateLost == bank = SumOfCuts(ledger)

\* Sessions 1 and 3 were both settled, by requests in flight together from
\* end_session on, and the Bank holds the two cuts.
C14_Witness ==
    /\ \A p \in Procs : req[p].pc = "idle"
    /\ \E i \in 1..Len(ledger) : ledger[i].session = 1 /\ ledger[i].type = "LEARNING"
    /\ \E i \in 1..Len(ledger) : ledger[i].session = 3 /\ ledger[i].type = "LEARNING"
    /\ bank = 2000

\* ------------------------------------------------ properties of a settlement
\* C11: a fault raised anywhere inside the settlement, after direction 1's
\* writes and before direction 2's in particular, leaves no ledger entry of
\* the settlement and every balance and the Bank as they were before it.
C11_FaultLeavesNoWrite ==
    [][\A s \in Sessions : \A u \in Participants(s) :
        (IsRequest("end", s, u) /\ resp'.status = "Fault")
        => /\ ledger' = ledger
           /\ balance' = balance
           /\ bank' = bank]_vars

\* Both users taught a credit's worth, both can pay, and the fault came
\* after the three writes of direction 1; nothing of it is left.
C11_Witness ==
    /\ resp.status = "Fault"
    /\ resp.at = 3
    /\ GetTeachingTime(timers[resp.s], User1(resp.s)) >= SecondsPerCredit
    /\ GetTeachingTime(timers[resp.s], User2(resp.s)) >= SecondsPerCredit
    /\ balance[User1(resp.s)] >= Unit /\ balance[User2(resp.s)] >= Unit
    /\ ledger = << >>
    /\ bank = 0

\* C13: when both users taught, the balance that caps direction 2 (user1 as
\* learner) is user1's balance with the teaching credit of direction 1 of
\* the same settlement already in it, and that credit is written first.
C13_Direction2SeesDirection1Credit ==
    [][\A s \in Sessions : \A u \in Participants(s) :
        (/\ IsRequest("end", s, u) /\ resp'.status = "ok"
         /\ resp'.secs1 > 0 /\ resp'.secs2 > 0)
        => LET a1 == DirActual(resp'.secs1, balance[User2(s)])
               got1 == a1 - DirCut(a1)
               a2 == DirActual(resp'.secs2, balance[User1(s)] + got1)
               new == Len(ledger) + 1 .. Len(ledger')
           IN  /\ balance'[User1(s)] = balance[User1(s)] + got1 - a2
               /\ a2 > 0 =>
                     \E i \in new :
                        /\ ledger'[i] = [user |-> User1(s), amount |-> -a2,
                                         type |-> "LEARNING", session |-> s]
                        /\ got1 > 0 =>
                              \E j \in new :
                                 /\ j < i
                                 /\ ledger'[j] = [user |-> User1(s), amount |-> got1,
                                                  type |-> "TEACHING", session |-> s]
               /\ a2 = 0 =>
                     \A i \in new :
                        ~(ledger'[i].user = User1(s) /\ ledger'[i].type = "LEARNING")]_vars

\* user1 held nothing, earned 0.9 credit in direction 1 and paid that 0.9
\* credit for the 650 seconds it learned in direction 2.
C13_Witness ==
    /\ resp.op = "end" /\ resp.status = "ok"
    /\ resp.secs1 = 300 /\ resp.secs2 = 650
    /\ balance[User1(1)] = 0
    /\ ledger = << [user |-> User2(1), amount |-> -10000, type |-> "LEARNING", session |-> 1],
                   [user |-> User1(1), amount |-> 9000, type |-> "TEACHING", session |-> 1],
                   [user |-> User1(1), amount |-> -9000, type |-> "LEARNING", session |-> 1],
                   [user |-> User2(1), amount |-> 8100, type |-> "TEACHING", session |-> 1] >>

\* The amounts of the ledger entries of one type from place i on.
RECURSIVE SumOfType(_, _, _)
SumOfType(l, i, type) ==
    IF i > Len(l) THEN 0
    ELSE (IF l[i].type = type THEN l[i].amount ELSE 0) + SumOfType(l, i + 1, type)

\* What a completed settlement debits is what it credits to the teachers
\* plus what it credits to the Bank, so that the two balances and the Bank
\* sum to what they did.
SettlementConserves(s) ==
    /\ -SumOfType(ledger', Len(ledger) + 1, "LEARNING")
          = SumOfType(ledger', Len(ledger) + 1, "TEACHING") + (bank' - bank)
    /\ balance'[User1(s)] + balance'[User2(s)] + bank'
          = balance[User1(s)] + balance[User2(s)] + bank

\* The summary's bank_cut is the sum of the cuts credited to the Bank.
SummaryCutIsSumOfCuts == resp'.summary.bank_cut = Float(bank' - bank)

\* C20: a completed settlement conserves credits, direction by direction
\* and in the sum of the two balances and the Bank, and the bank_cut of the
\* summary it returns is the sum of the two directions' cuts.
C20_SettlementConservesCredits ==
    [][\A s \in Sessions : \A u \in Participants(s) :
        (IsRequest("end", s, u) /\ resp'.status = "ok")
        => (SettlementConserves(s) /\ SummaryCutIsSumOfCuts)]_vars

\* C12: after a settlement that failed, the session's isActive is still
\* true (so that endSession can be called again and settle).
C12_FaultLeavesSessionActive ==
    resp.status = "Fault" => isActive[resp.s]

\* ------------------------------------------------------ properties of chat
\* A connection whose identity may not join the group it asks for: an
\* anonymous identity, an outsider of the session, or no such session.
NotAllowed(c) ==
    /\ conn[c].st # "none"
    /\ \/ conn[c].user = Anonymous
       \/ conn[c].sid \notin Sessions
       \/ conn[c].user \notin {User1(conn[c].sid), User2(conn[c].sid)}

\* C15: a connection that may not join is closed with code 4003, is never
\* a member of a group and is sent nothing, and neither its attempt nor its
\* disconnection puts an event on a member's channel.
C15_OutsiderNeverJoins ==
    /\ [](\A c \in Conns :
            NotAllowed(c)
            => /\ conn[c].st \in {"rejected", "closed"}
               /\ conn[c].code = 4003
               /\ \A g \in ChatSessions : c \notin group[g]
               /\ chan[c] = << >>
               /\ out[c] = << >>)
    /\ [][\A c \in Conns :
            (NotAllowed(c)' /\ conn'[c] # conn[c])
            => UNCHANGED <<group, chan, out>>]_vars

\* The outsider u3 was turned away and went, while u1 and u2 are connected
\* and were sent a chat message it never got.
C15_Witness ==
    /\ conn[3] = [user |-> "u3", sid |-> 1, st |-> "closed", code |-> 4003]
    /\ conn[1].st = "open" /\ conn[2].st = "open"
    /\ \E i \in 1..Len(out[1]) : out[1][i].type = "chat_message"
    /\ \E i \in 1..Len(out[2]) : out[2][i].type = "chat_message"
    /\ out[3] = << >>

\* C17: a typing frame of X puts a typing_indicator on the channel of every
\* member of the group, X included; each member's handler then sends a
\* typing message on, unless the member is X: X is never sent its own.
C17_TypingNotEchoed ==
    /\ [](\A c \in Conns : \A i \in 1..Len(out[c]) :
            out[c][i].type = "typing" => out[c][i].user.id # conn[c].user)
    /\ [][/\ \A c \in Conns :
              (last' # last /\ last'.c = c /\ last'.data.type = "typing")
              => /\ c \in group[conn[c].sid]
                 /\ \A m \in Conns :
                      chan'[m] =
                        IF m \in group[conn[c].sid]
                        THEN chan[m] \o
                             << [type |-> "typing_indicator",
                                 user |-> [id |-> conn[c].user, name |-> conn[c].user],
                                 is_typing |-> IF "is_typing" \in DOMAIN last'.data
                                               THEN last'.data.is_typing
                                               ELSE FALSE] >>
                        ELSE chan[m]
         /\ \A m \in Conns :
              (/\ conn'[m].st = "open" /\ chan[m] # << >>
               /\ chan'[m] = Tail(chan[m])
               /\ Head(chan[m]).type = "typing_indicator")
              => out'[m] =
                    IF Head(chan[m]).user.id # conn[m].user
                    THEN out[m] \o << [type |-> "typing",
                                       user |-> Head(chan[m]).user,
                                       is_typing |-> Head(chan[m]).is_typing] >>
                    ELSE out[m]]_vars

\* u1 sent a typing frame: u2 was sent the typing message, and u1's own
\* consumer handled the event and sent u1 nothing of it.
C17_Witness ==
    /\ last.c = 1 /\ last.data.type = "typing"
    /\ conn[1].st = "open" /\ conn[2].st = "open"
    /\ chan[1] = << >>
    /\ \A i \in 1..Len(out[1]) : out[1][i].type # "typing"
    /\ \E i \in 1..Len(out[2]) :
          /\ out[2][i].type = "typing"
          /\ out[2][i].user.id = conn[1].user

\* msg is text without the spaces it starts and ends with.
IsStripped(msg, text) ==
    \E i, j \in 1..Len(text) :
        /\ msg = SubSeq(text, i, j)
        /\ text[i] # " " /\ text[j] # " "
        /\ \A k \in 1..Len(text) : (k < i \/ k > j) => text[k] = " "

\* C18: a chat_message frame with no message, or an empty or blank one,
\* puts no event on any channel and sends the sender nothing; one with text
\* puts exactly one chat_message event, carrying the stripped text, on the
\* channel of every member of the group, the sender's included, and every
\* member's handler sends it on as a chat_message.
C18_BlankIgnoredTextBroadcast ==
    [][/\ \A c \in Conns :
            (last' # last /\ last'.c = c /\ last'.data.type = "chat_message")
            => LET text == IF "message" \in DOMAIN last'.data
                           THEN last'.data.message ELSE << >>
               IN  /\ out' = out
                   /\ IF \A k \in 1..Len(text) : text[k] = " "
                      THEN chan' = chan
                      ELSE /\ c \in group[conn[c].sid]
                           /\ \A m \in Conns :
                                IF m \in group[conn[c].sid]
                                THEN /\ Len(chan'[m]) = Len(chan[m]) + 1
                                     /\ SubSeq(chan'[m], 1, Len(chan[m])) = chan[m]
                                     /\ chan'[m][Len(chan'[m])].type = "chat_message"
                                     /\ chan'[m][Len(chan'[m])].sender = conn[c].user
                                     /\ IsStripped(chan'[m][Len(chan'[m])].message, text)
                                ELSE chan'[m] = chan[m]
       /\ \A m \in Conns :
            (/\ conn'[m].st = "open" /\ chan[m] # << >>
             /\ chan'[m] = Tail(chan[m])
             /\ Head(chan[m]).type = "chat_message")
            => out'[m] = out[m] \o << [type |-> "chat_message",
                                       sender |-> Head(chan[m]).sender,
                                       message |-> Head(chan[m]).message,
                                       timestamp |-> Head(chan[m]).timestamp] >>]_vars

\* u1 sent " h ": u1 and u2 were both sent the chat_message "h" of u1.
C18_Witness ==
    /\ last.c = 1 /\ last.data = [type |-> "chat_message", message |-> <<" ", "h", " ">>]
    /\ \A m \in {1, 2} :
          \E i \in 1..Len(out[m]) :
             /\ out[m][i].type = "chat_message"
             /\ out[m][i].sender = "u1"
             /\ out[m][i].message = <<"h">>

\* ------------------------------------------------- properties of the gate
\* The credential of a connection as the gate is described: the value of
\* the query parameter token when there is one, otherwise what follows the
\* prefix of the first offered protocol that starts with access_token_.
DescribedCredential(query_string, subprotocols) ==
    LET pieces == Split(query_string, "&")
        named == {i \in 1..Len(pieces) :
                     Len(pieces[i]) >= 2 /\ pieces[i][1] = "token" /\ pieces[i][2] = "="}
        with == {i \in 1..Len(subprotocols) :
                    subprotocols[i] # << >> /\ subprotocols[i][1] = "access_token_"}
    IN  IF named # {}
        THEN Tail(Tail(pieces[CHOOSE i \in named : \A j \in named : i <= j]))
        ELSE IF with # {}
        THEN Tail(subprotocols[CHOOSE i \in with : \A j \in with : i <= j])
        ELSE << >>

\* C16: whatever the query string and the protocols offered, the gate
\* passes the connection on with an identity attached: the user of the
\* described credential when it verifies, the anonymous identity otherwise.
C16_GatePassesEveryConnection ==
    gate.pc \notin {"idle", "arrived"}
    => /\ gate.pc = "passed"
       /\ gate.user = IF DescribedCredential(gate.query, gate.subprotocols) = <<"J">>
                      THEN "u1" ELSE Anonymous
====
